---- MODULE Spec2Model ----
(***************************************************************************)
(* Model of weather.py: a command-line program that reads a city and a     *)
(* unit flag, reads an API key from secrets.ini, builds a query URL,       *)
(* performs one HTTP GET, decodes the JSON body and prints one line.       *)
(*                                                                         *)
(* Text is modelled as a sequence of one-character strings, so that        *)
(* joining, percent-encoding, centring and capitalising are computed       *)
(* character by character as the Python library computes them.  Two        *)
(* non-ASCII characters are written by their code points: "U+00C2" and     *)
(* "U+00B0" each stand for one character.                                  *)
(***************************************************************************)
EXTENDS Integers, Sequences, FiniteSets, TLC

\* ------------------------------------------------------------------ bounds
\* Longest list of city tokens on the command line.
MaxTokens == 2
\* Largest column width style.PADDING may have.
MaxPadding == 6

\* ---------------------------------------------------------- text helpers
LowerCase == <<"a", "b", "c", "d", "e", "f", "g", "h", "i", "j", "k", "l", "m", "n", "o", "p", "q", "r", "s", "t", "u", "v", "w", "x", "y", "z">>
UpperCase == <<"A", "B", "C", "D", "E", "F", "G", "H", "I", "J", "K", "L", "M", "N", "O", "P", "Q", "R", "S", "T", "U", "V", "W", "X", "Y", "Z">>
Digits == <<"0", "1", "2", "3", "4", "5", "6", "7", "8", "9">>

Range(s) == {s[i] : i \in DOMAIN s}

IndexOf(c, s) == CHOOSE i \in DOMAIN s : s[i] = c

\* s contains sub as a contiguous piece
Contains(s, sub) ==
    \E i \in 1..(Len(s) - Len(sub) + 1) : SubSeq(s, i, i + Len(sub) - 1) = sub

\* position of the first occurrence of sub in s, 0 when there is none
Find(s, sub) ==
    IF Contains(s, sub)
    THEN CHOOSE i \in 1..(Len(s) - Len(sub) + 1) :
            /\ SubSeq(s, i, i + Len(sub) - 1) = sub
            /\ \A j \in 1..(i - 1) : SubSeq(s, j, j + Len(sub) - 1) # sub
    ELSE 0

RECURSIVE Flatten(_)
Flatten(ss) == IF ss = <<>> THEN <<>> ELSE Head(ss) \o Flatten(Tail(ss))

\* Python's sep.join(parts)
RECURSIVE Join(_, _)
Join(sep, parts) ==
    IF parts = <<>> THEN <<>>
    ELSE IF Len(parts) = 1 THEN parts[1]
    ELSE parts[1] \o sep \o Join(sep, Tail(parts))

\* decimal digits of a natural number
RECURSIVE NatStr(_)
NatStr(n) == IF n < 10 THEN <<Digits[n + 1]>> ELSE NatStr(n \div 10) \o <<Digits[(n % 10) + 1]>>

\* A JSON number with one fractional digit is held as its value in tenths
\* (18.5 is 185); FloatStr is Python's str() of that float.
FloatStr(t) ==
    LET a == IF t < 0 THEN -t ELSE t
    IN  (IF t < 0 THEN <<"-">> ELSE <<>>) \o NatStr(a \div 10) \o <<".">> \o NatStr(a % 10)

\* str.capitalize(): first character upper-cased, the rest lower-cased
Upper(c) == IF c \in Range(LowerCase) THEN UpperCase[IndexOf(c, LowerCase)] ELSE c
Lower(c) == IF c \in Range(UpperCase) THEN LowerCase[IndexOf(c, UpperCase)] ELSE c
capitalize(s) == [i \in DOMAIN s |-> IF i = 1 THEN Upper(s[i]) ELSE Lower(s[i])]

Spaces(n) == [i \in 1..n |-> " "]

\* format(s, "^w"): s centred in w columns, the odd space going to the right;
\* a text of w characters or more is left as it is
Center(s, w) ==
    IF Len(s) >= w THEN s
    ELSE LET pad == w - Len(s)
             left == pad \div 2
         IN  Spaces(left) \o s \o Spaces(pad - left)

\* ------------------------------------------------ urllib.parse.quote_plus
AlwaysSafe == Range(LowerCase) \cup Range(UpperCase) \cup Range(Digits) \cup {"_", ".", "-", "~"}

\* hexadecimal code of the characters outside AlwaysSafe that the inputs use
PercentCode(c) ==
    CASE c = "&" -> <<"%", "2", "6">>
      [] c = "=" -> <<"%", "3", "D">>
      [] c = "+" -> <<"%", "2", "B">>
      [] c = "%" -> <<"%", "2", "5">>
      [] c = "/" -> <<"%", "2", "F">>
      [] c = "?" -> <<"%", "3", "F">>
      [] c = ":" -> <<"%", "3", "A">>

quote_plus(s) ==
    Flatten([i \in DOMAIN s |->
                IF s[i] = " " THEN <<"+">>
                ELSE IF s[i] \in AlwaysSafe THEN <<s[i]>>
                ELSE PercentCode(s[i])])

\* ------------------------------------------------------ build_weather_query
BASE_WEATHER_API_URL == <<"h", "t", "t", "p", ":", "/", "/", "a", "p", "i", ".", "o", "p", "e", "n", "w", "e", "a", "t", "h", "e", "r", "m", "a", "p", ".", "o", "r", "g", "/", "d", "a", "t", "a", "/", "2", ".", "5", "/", "w", "e", "a", "t", "h", "e", "r">>

Metric == <<"m", "e", "t", "r", "i", "c">>
Imperial == <<"i", "m", "p", "e", "r", "i", "a", "l">>

\* line 44
UnitsOf(imperial) == IF imperial THEN Imperial ELSE Metric

\* lines 42-49, the part of build_weather_query after the key has been read
weather_url(city_input, imperial, api_key) ==
    LET city_name == Join(<<" ">>, city_input)
        url_encoded_city_name == quote_plus(city_name)
        units == UnitsOf(imperial)
    IN  BASE_WEATHER_API_URL \o <<"?", "q", "=">> \o url_encoded_city_name
            \o <<"&", "u", "n", "i", "t", "s", "=">> \o units
            \o <<"&", "a", "p", "p", "i", "d", "=">> \o api_key

\* ----------------------------------------------------------- _get_api_key
EmptyObj == [k \in {} |-> k]

\* a loader that returns the user option of the section when there is one
_get_api_key_user_option(file) ==
    LET config == IF file.exists THEN file.cfg ELSE EmptyObj
    IN  IF "openweather" \notin DOMAIN config
        THEN [fault |-> "KeyError", value |-> <<>>]
        ELSE IF "user" \in DOMAIN config["openweather"]
        THEN [fault |-> "none", value |-> config["openweather"]["user"]]
        ELSE IF "api_key" \notin DOMAIN config["openweather"]
        THEN [fault |-> "KeyError", value |-> <<>>]
        ELSE [fault |-> "none", value |-> config["openweather"]["api_key"]]

\* ConfigParser.read skips a file that does not exist and leaves the
\* configuration empty; [] on a missing section or option raises KeyError.
_get_api_key(file) ==
    LET config == IF file.exists THEN file.cfg ELSE EmptyObj
    IN  IF "openweather" \notin DOMAIN config
        THEN [fault |-> "KeyError", value |-> <<>>]
        ELSE IF "api_key" \notin DOMAIN config["openweather"]
        THEN [fault |-> "KeyError", value |-> <<>>]
        ELSE [fault |-> "none", value |-> config["openweather"]["api_key"]]

\* lines 41-49: the whole of build_weather_query as one call
build_weather_query(city_input, imperial, file) ==
    LET key == _get_api_key(file)
    IN  IF key.fault # "none"
        THEN [fault |-> key.fault, url |-> <<>>]
        ELSE [fault |-> "none", url |-> weather_url(city_input, imperial, key.value)]

\* ------------------------------------------------------------ print_result
\* style.change_color(code) sends the code to the terminal; the codes are
\* kept as single items of the output, apart from the text.
style_REVERSE == "REVERSE"
style_RED == "RED"
style_RESET == "RESET"
change_color(code) == <<code>>

\* the symbol of a print_result that ignores its imperial argument
UnitSymbolAlwaysC(imperial) == <<"C">>

UnitSymbol(imperial) == IF imperial THEN <<"F">> ELSE <<"C">>

\* a print_result that looks the temperature up only where it is printed, in
\* the last print, after the first two prints have been made
print_result_late_temperature(weather_data, imperial, PADDING) ==
    IF \/ "name" \notin DOMAIN weather_data
       \/ "sys" \notin DOMAIN weather_data
       \/ "country" \notin DOMAIN weather_data["sys"]
       \/ "weather" \notin DOMAIN weather_data
    THEN [fault |-> "KeyError", out |-> <<>>]
    ELSE IF Len(weather_data["weather"]) = 0
    THEN [fault |-> "IndexError", out |-> <<>>]
    ELSE IF "description" \notin DOMAIN weather_data["weather"][1]
    THEN [fault |-> "KeyError", out |-> <<>>]
    ELSE LET first == change_color(style_REVERSE) \o change_color(style_RED)
                        \o Center(weather_data["name"], PADDING) \o <<",", " ">>
                        \o weather_data["sys"]["country"]
                        \o change_color(style_RESET) \o change_color(style_RED)
                        \o <<"\t">>
                        \o Center(capitalize(weather_data["weather"][1]["description"]), PADDING)
                        \o <<" ">> \o change_color(style_RESET)
         IN  IF \/ "main" \notin DOMAIN weather_data
                \/ "temp" \notin DOMAIN weather_data["main"]
             THEN [fault |-> "KeyError", out |-> first]
             ELSE [fault |-> "none",
                   out |-> first \o <<"(">> \o FloatStr(weather_data["main"]["temp"])
                              \o <<"U+00C2", "U+00B0">> \o UnitSymbol(imperial)
                              \o <<")">> \o <<"\n">>]

\* lines 89-104.  The four subscriptions of lines 90-93 come first, each
\* raising on a missing key or an empty list; the prints follow.
print_result(weather_data, imperial, PADDING) ==
    IF "name" \notin DOMAIN weather_data
    THEN [fault |-> "KeyError", out |-> <<>>]
    ELSE IF \/ "sys" \notin DOMAIN weather_data
            \/ "country" \notin DOMAIN weather_data["sys"]
    THEN [fault |-> "KeyError", out |-> <<>>]
    ELSE IF "weather" \notin DOMAIN weather_data
    THEN [fault |-> "KeyError", out |-> <<>>]
    ELSE IF Len(weather_data["weather"]) = 0
    THEN [fault |-> "IndexError", out |-> <<>>]
    ELSE IF "description" \notin DOMAIN weather_data["weather"][1]
    THEN [fault |-> "KeyError", out |-> <<>>]
    ELSE IF \/ "main" \notin DOMAIN weather_data
            \/ "temp" \notin DOMAIN weather_data["main"]
    THEN [fault |-> "KeyError", out |-> <<>>]
    ELSE LET city_name == weather_data["name"]
             city_country == weather_data["sys"]["country"]
             weather_description == weather_data["weather"][1]["description"]
             temperature == weather_data["main"]["temp"]
         IN  [fault |-> "none",
              out |->    change_color(style_REVERSE)
                      \o change_color(style_RED)
                      \o Center(city_name, PADDING) \o <<",", " ">> \o city_country
                      \o change_color(style_RESET)
                      \o change_color(style_RED)
                      \o <<"\t">> \o Center(capitalize(weather_description), PADDING) \o <<" ">>
                      \o change_color(style_RESET)
                      \o <<"(">> \o FloatStr(temperature) \o <<"U+00C2", "U+00B0">>
                      \o UnitSymbol(imperial) \o <<")">> \o <<"\n">>]

\* --------------------------------------------------------- get_weather_data
MsgAccessDenied == <<"Access denied. Please check your API key and try again.">>
MsgCityNotFound == <<"Can't find weather data for this city.">>
MsgUnreadable == <<"Couldn't read the server response.">>
MsgOther(code) == <<"Something went wrong... (">> \o NatStr(code) \o <<")">>

\* an error mapping that has no branch for 404
HttpErrorMessageNo404(code) ==
    IF code = 401 THEN MsgAccessDenied ELSE MsgOther(code)

\* lines 62-68: the message sys.exit is given for an HTTPError
HttpErrorMessage(code) ==
    IF code = 401 THEN MsgAccessDenied
    ELSE IF code = 404 THEN MsgCityNotFound
    ELSE MsgOther(code)

\* lines 70-73: json.loads on the bytes read.  Bytes that are not text in
\* any Unicode encoding raise UnicodeDecodeError, which is a ValueError but
\* not a JSONDecodeError, so the except clause of line 72 does not apply.
json_loads(data) ==
    IF data.kind = "json" THEN [fault |-> "none", value |-> data.value]
    ELSE IF data.kind = "malformed" THEN [fault |-> "JSONDecodeError", value |-> EmptyObj]
    ELSE [fault |-> "UnicodeDecodeError", value |-> EmptyObj]

\* ------------------------------------------------------------------ inputs
Oslo == <<"O", "s", "l", "o">>
NewYork == <<"N", "e", "w", " ", "Y", "o", "r", "k">>
UnitsImperialText == <<"u", "n", "i", "t", "s", "=", "i", "m", "p", "e", "r", "i", "a", "l">>

\* one command-line word each; a quoted word may hold a space
Tokens == {Oslo, NewYork, UnitsImperialText}

\* nargs="+": one token or more
CityInputs == UNION {[1..n -> Tokens] : n \in 1..MaxTokens}

\* what the command line amounts to for argparse: a city with or without
\* -i/--imperial, a line argparse rejects, or a request for help
Argvs ==
    {[kind |-> "ok", city |-> c, imperial |-> i] : c \in CityInputs, i \in BOOLEAN}
        \cup {[kind |-> k, city |-> <<>>, imperial |-> FALSE] : k \in {"usage", "help"}}

KeyPlain == <<"b", "6", "9", "0", "7", "d", "2", "8">>
KeyWithUnits == <<"k", "&", "u", "n", "i", "t", "s", "=", "i", "m", "p", "e", "r", "i", "a", "l">>
KeyWithSpace == <<"a", " ", "b">>
ApiKeys == {KeyPlain, KeyWithUnits, KeyWithSpace}
Users == {<<"a", "n", "n">>, <<"b", "o", "b">>}

NoFile == [exists |-> FALSE, cfg |-> EmptyObj]
FileWith(cfg) == [exists |-> TRUE, cfg |-> cfg]

\* contents secrets.ini may have
SecretsFiles ==
    {NoFile, FileWith(EmptyObj), FileWith("openweather" :> EmptyObj)}
        \cup {FileWith("openweather" :> ("user" :> u)) : u \in Users}
        \cup {FileWith("openweather" :> ("api_key" :> k)) : k \in ApiKeys}
        \cup {FileWith("openweather" :> (("api_key" :> KeyPlain) @@ ("user" :> u))) : u \in Users}

Paddings == 0..MaxPadding

\* decoded JSON objects: each of the four parts present, cut short or absent
NameParts == {EmptyObj} \cup {"name" :> n : n \in {Oslo, NewYork}}
SysParts == {EmptyObj, "sys" :> EmptyObj, "sys" :> ("country" :> <<"N", "O">>)}
WeatherParts ==
    {EmptyObj, "weather" :> <<>>, "weather" :> <<EmptyObj>>,
     "weather" :> <<"description" :> <<"l", "i", "g", "h", "t", " ", "R", "a", "i", "n">>>>}
MainParts == {EmptyObj, "main" :> EmptyObj} \cup {"main" :> ("temp" :> t) : t \in {185, -30}}
Payloads ==
    {n @@ s @@ w @@ m : n \in NameParts, s \in SysParts, w \in WeatherParts, m \in MainParts}

NoBody == [kind |-> "none", value |-> EmptyObj]
Bodies ==
    {[kind |-> "json", value |-> p] : p \in Payloads}
        \cup {[kind |-> k, value |-> EmptyObj] : k \in {"malformed", "undecodable"}}

ErrorStatuses == {400, 401, 404, 500}

\* what urlopen can come back with: no HTTP answer at all (URLError), an
\* error status (HTTPError), or a response whose body can be read
Replies ==
    {[kind |-> "URLError", code |-> 0, body |-> NoBody]}
        \cup {[kind |-> "HTTPError", code |-> c, body |-> NoBody] : c \in ErrorStatuses}
        \cup {[kind |-> "ok", code |-> 200, body |-> b] : b \in Bodies}

NoReply == [kind |-> "none", code |-> 0, body |-> NoBody]

\* ------------------------------------------------------------------- state
VARIABLES
    argv,          \* the command line
    secrets,       \* secrets.ini
    padding,       \* style.PADDING
    pc,            \* line of __main__ / build_weather_query about to run
    user_args,     \* line 107
    api_key,       \* line 41
    query_url,     \* line 108
    reply,         \* what urlopen came back with, line 61
    body_read,     \* response.read() was called, line 69
    weather_data,  \* line 109
    stdout,
    stderr,
    exit_code,     \* Running until the process ends
    fault,         \* exception that ended the process unhandled, or "none"
    started,       \* components in the order they were invoked
    completed,     \* components that returned normally
    failed,        \* the component the run ended in without completing it
    gets,          \* HTTP GETs issued
    q              \* two calls of build_weather_query side by side

vars == <<argv, secrets, padding, pc, user_args, api_key, query_url, reply, body_read,
          weather_data, stdout, stderr, exit_code, fault, started, completed, failed, gets, q>>

Running == -1
Traceback(exc) == <<"Traceback", exc>>

QIdle == [city |-> <<>>, imperial |-> FALSE, file |-> <<NoFile, NoFile>>,
          done |-> <<FALSE, FALSE>>, result |-> <<[fault |-> "none", url |-> <<>>], [fault |-> "none", url |-> <<>>]>>]

ProcessStart ==
    /\ pc = "l107"
    /\ user_args = [city |-> <<>>, imperial |-> FALSE]
    /\ api_key = <<>>
    /\ query_url = <<>>
    /\ reply = NoReply
    /\ body_read = FALSE
    /\ weather_data = EmptyObj
    /\ stdout = <<>>
    /\ stderr = <<>>
    /\ exit_code = Running
    /\ fault = "none"
    /\ started = <<>>
    /\ completed = {}
    /\ failed = "none"
    /\ gets = 0

Init ==
    /\ argv \in Argvs
    /\ secrets \in SecretsFiles
    /\ padding \in Paddings
    /\ ProcessStart
    /\ q = QIdle

\* an exit that always reports success
ExitAlwaysZero(code, err, exc) ==
    /\ pc' = "exit"
    /\ exit_code' = 0
    /\ stderr' = err
    /\ fault' = exc

\* the process ends: sys.exit, an unhandled exception, or the end of __main__
Exit(code, err, exc) ==
    /\ pc' = "exit"
    /\ exit_code' = code
    /\ stderr' = err
    /\ fault' = exc

\* line 107, lines 11-29
read_user_cli_args ==
    /\ pc = "l107"
    /\ started' = Append(started, "ArgumentReader")
    /\ \/ /\ argv.kind = "ok"
          /\ user_args' = [city |-> argv.city, imperial |-> argv.imperial]
          /\ completed' = completed \cup {"ArgumentReader"}
          /\ pc' = "l108"
          /\ UNCHANGED <<stdout, stderr, exit_code, fault, failed>>
       \/ /\ argv.kind = "usage"
          /\ Exit(2, <<"usage">>, "none")
          /\ failed' = "ArgumentReader"
          /\ UNCHANGED <<user_args, completed, stdout>>
       \/ /\ argv.kind = "help"
          /\ stdout' = <<"help">>
          /\ Exit(0, <<>>, "none")
          /\ UNCHANGED <<user_args, completed, failed>>
    /\ UNCHANGED <<argv, secrets, padding, api_key, query_url, reply, body_read,
                   weather_data, gets, q>>

\* line 108: __main__ calls build_weather_query
call_build_weather_query ==
    /\ pc = "l108"
    /\ started' = Append(started, "QueryBuilder")
    /\ pc' = "l41"
    /\ UNCHANGED <<argv, secrets, padding, user_args, api_key, query_url, reply, body_read,
                   weather_data, stdout, stderr, exit_code, fault, completed, failed, gets, q>>

\* line 41, lines 85-87
get_api_key ==
    /\ pc = "l41"
    /\ started' = Append(started, "CredentialLoader")
    /\ LET key == _get_api_key(secrets)
       IN  \/ /\ key.fault = "none"
              /\ api_key' = key.value
              /\ completed' = completed \cup {"CredentialLoader"}
              /\ pc' = "l42"
              /\ UNCHANGED <<stderr, exit_code, fault, failed>>
           \/ /\ key.fault # "none"
              /\ Exit(1, Traceback(key.fault), key.fault)
              /\ failed' = "CredentialLoader"
              /\ UNCHANGED <<api_key, completed>>
    /\ UNCHANGED <<argv, secrets, padding, user_args, query_url, reply, body_read,
                   weather_data, stdout, gets, q>>

\* lines 42-49 and the assignment of line 108
build_url ==
    /\ pc = "l42"
    /\ query_url' = weather_url(user_args.city, user_args.imperial, api_key)
    /\ completed' = completed \cup {"QueryBuilder"}
    /\ pc' = "l109"
    /\ UNCHANGED <<argv, secrets, padding, user_args, api_key, reply, body_read, weather_data,
                   stdout, stderr, exit_code, fault, started, failed, gets, q>>

\* a fetcher that sends the request again after an error status
urlopen_retrying ==
    /\ pc = "l109"
    /\ started' = Append(started, "WeatherFetcher")
    /\ gets' = gets + 1
    /\ \E r \in Replies :
          /\ reply' = r
          /\ \/ /\ r.kind = "ok"
                /\ pc' = "l69"
                /\ UNCHANGED <<stderr, exit_code, fault, failed>>
             \/ /\ r.kind = "HTTPError"
                /\ gets < 1
                /\ pc' = "l109"
                /\ UNCHANGED <<stderr, exit_code, fault, failed>>
             \/ /\ r.kind = "HTTPError"
                /\ gets >= 1
                /\ Exit(1, HttpErrorMessage(r.code), "none")
                /\ failed' = "WeatherFetcher"
             \/ /\ r.kind = "URLError"
                /\ Exit(1, Traceback("URLError"), "URLError")
                /\ failed' = "WeatherFetcher"
    /\ UNCHANGED <<argv, secrets, padding, user_args, api_key, query_url, body_read,
                   weather_data, stdout, completed, q>>

\* line 109, lines 60-68
urlopen ==
    /\ pc = "l109"
    /\ started' = Append(started, "WeatherFetcher")
    /\ gets' = gets + 1
    /\ \E r \in Replies :
          /\ reply' = r
          /\ \/ /\ r.kind = "ok"
                /\ pc' = "l69"
                /\ UNCHANGED <<stderr, exit_code, fault, failed>>
             \/ /\ r.kind = "HTTPError"
                /\ Exit(1, HttpErrorMessage(r.code), "none")
                /\ failed' = "WeatherFetcher"
             \/ /\ r.kind = "URLError"
                /\ Exit(1, Traceback("URLError"), "URLError")
                /\ failed' = "WeatherFetcher"
    /\ UNCHANGED <<argv, secrets, padding, user_args, api_key, query_url, body_read,
                   weather_data, stdout, completed, q>>

\* lines 69-73 and the assignment of line 109
read_and_decode ==
    /\ pc = "l69"
    /\ body_read' = TRUE
    /\ LET data == json_loads(reply.body)
       IN  \/ /\ data.fault = "none"
              /\ weather_data' = data.value
              /\ completed' = completed \cup {"WeatherFetcher"}
              /\ pc' = "l110"
              /\ UNCHANGED <<stderr, exit_code, fault, failed>>
           \/ /\ data.fault = "JSONDecodeError"
              /\ Exit(1, MsgUnreadable, "none")
              /\ failed' = "WeatherFetcher"
              /\ UNCHANGED <<weather_data, completed>>
           \/ /\ data.fault \notin {"none", "JSONDecodeError"}
              /\ Exit(1, Traceback(data.fault), data.fault)
              /\ failed' = "WeatherFetcher"
              /\ UNCHANGED <<weather_data, completed>>
    /\ UNCHANGED <<argv, secrets, padding, user_args, api_key, query_url, reply,
                   stdout, started, gets, q>>

\* line 110, lines 89-104, and the end of __main__
call_print_result ==
    /\ pc = "l110"
    /\ started' = Append(started, "Presenter")
    /\ LET r == print_result(weather_data, user_args.imperial, padding)
       IN  /\ stdout' = stdout \o r.out
           /\ \/ /\ r.fault = "none"
                 /\ completed' = completed \cup {"Presenter"}
                 /\ Exit(0, <<>>, "none")
                 /\ UNCHANGED failed
              \/ /\ r.fault # "none"
                 /\ Exit(1, Traceback(r.fault), r.fault)
                 /\ failed' = "Presenter"
                 /\ UNCHANGED completed
    /\ UNCHANGED <<argv, secrets, padding, user_args, api_key, query_url, reply, body_read,
                   weather_data, gets, q>>

Next ==
    \/ read_user_cli_args
    \/ call_build_weather_query
    \/ get_api_key
    \/ build_url
    \/ urlopen
    \/ read_and_decode
    \/ call_print_result

Spec == Init /\ [][Next]_vars

\* --------------------------------------------- build_weather_query, twice
\* The same city tokens and flag are given to two calls, each made while
\* secrets.ini has contents of its own.
InitQuery ==
    /\ argv = [kind |-> "help", city |-> <<>>, imperial |-> FALSE]
    /\ secrets = NoFile
    /\ padding = 0
    /\ ProcessStart
    /\ \E c \in CityInputs, i \in BOOLEAN, fa \in SecretsFiles, fb \in SecretsFiles :
          q = [QIdle EXCEPT !.city = c, !.imperial = i, !.file = <<fa, fb>>]

Call(n) ==
    /\ ~q.done[n]
    /\ q' = [q EXCEPT !.done[n] = TRUE,
                      !.result[n] = build_weather_query(q.city, q.imperial, q.file[n])]
    /\ UNCHANGED <<argv, secrets, padding, pc, user_args, api_key, query_url, reply, body_read,
                   weather_data, stdout, stderr, exit_code, fault, started, completed, failed, gets>>

first_call == Call(1)
second_call == Call(2)

NextQuery == first_call \/ second_call

SpecQuery == InitQuery /\ [][NextQuery]_vars

\* ------------------------------------------------- vocabulary of the claims
Ran(component) == component \in Range(started)

ListedOrder == <<"ArgumentReader", "CredentialLoader", "QueryBuilder", "WeatherFetcher", "Presenter">>
CalledOrder == <<"ArgumentReader", "QueryBuilder", "CredentialLoader", "WeatherFetcher", "Presenter">>

IsPrefix(s, t) == Len(s) <= Len(t) /\ s = SubSeq(t, 1, Len(s))
NoRepeats(s) == \A i, j \in DOMAIN s : s[i] = s[j] => i = j

\* the text after the first occurrence of sub, and the text before it
AfterFirst(s, sub) == SubSeq(s, Find(s, sub) + Len(sub), Len(s))
BeforeFirst(s, sub) == IF Contains(s, sub) THEN SubSeq(s, 1, Find(s, sub) - 1) ELSE s

QueryString(url) == AfterFirst(url, <<"?">>)

\* value of the units parameter that follows the city in the query string
SentUnits(url) == BeforeFirst(AfterFirst(url, <<"&", "u", "n", "i", "t", "s", "=">>), <<"&">>)

\* value of the q parameter, with which the query string begins
SentCity(url) == BeforeFirst(AfterFirst(url, <<"?", "q", "=">>), <<"&">>)

\* the character from which a percent code was made
Decoded(a, b) ==
    CASE <<a, b>> = <<"2", "6">> -> "&"
      [] <<a, b>> = <<"3", "D">> -> "="
      [] <<a, b>> = <<"2", "B">> -> "+"
      [] <<a, b>> = <<"2", "5">> -> "%"
      [] <<a, b>> = <<"2", "F">> -> "/"
      [] <<a, b>> = <<"3", "F">> -> "?"
      [] <<a, b>> = <<"3", "A">> -> ":"
      [] OTHER -> "undefined"

\* reading of a form-encoded value: "+" is a space, %XX is one character
RECURSIVE FormDecoded(_)
FormDecoded(s) ==
    IF s = <<>> THEN <<>>
    ELSE IF Head(s) = "+" THEN <<" ">> \o FormDecoded(Tail(s))
    ELSE IF Head(s) = "%" /\ Len(s) >= 3
    THEN <<Decoded(s[2], s[3])>> \o FormDecoded(SubSeq(s, 4, Len(s)))
    ELSE <<Head(s)>> \o FormDecoded(Tail(s))

StyleCodes == {"REVERSE", "RED", "RESET"}

\* the characters written to standard output, style codes left out
Text(out) == SelectSeq(out, LAMBDA c : c \notin StyleCodes)

Count(c, s) == Cardinality({i \in DOMAIN s : s[i] = c})

\* the payload has name, sys.country, weather[0].description and main.temp
Complete(d) ==
    /\ "name" \in DOMAIN d
    /\ "sys" \in DOMAIN d /\ "country" \in DOMAIN d["sys"]
    /\ "weather" \in DOMAIN d /\ Len(d["weather"]) >= 1 /\ "description" \in DOMAIN d["weather"][1]
    /\ "main" \in DOMAIN d /\ "temp" \in DOMAIN d["main"]

DesignedMessages ==
    {<<"Access denied. Please check your API key and try again.">>,
     <<"Can't find weather data for this city.">>,
     <<"Couldn't read the server response.">>}
        \cup {<<"Something went wrong... (">> \o NatStr(c) \o <<")">> : c \in ErrorStatuses}

\* the api_key option of the openweather section, when secrets.ini has one
KeyOption(file) ==
    IF file.exists /\ "openweather" \in DOMAIN file.cfg /\ "api_key" \in DOMAIN file.cfg["openweather"]
    THEN {file.cfg["openweather"]["api_key"]}
    ELSE {}

\* ------------------------------------------------------------------ claims

\* C1: in every run in which the Presenter prints its line, the units value
\* sent in the request URL and the unit symbol printed both follow the
\* imperial flag of the command line: metric goes with C, imperial with F.
C1_UnitPairing ==
    (pc = "exit" /\ "Presenter" \in completed) =>
        LET symbol == Text(stdout)[Len(Text(stdout)) - 2]
        IN  \/ ~argv.imperial /\ SentUnits(query_url) = Metric /\ symbol = "C"
            \/ argv.imperial /\ SentUnits(query_url) = Imperial /\ symbol = "F"

C1_Witness ==
    /\ pc = "exit" /\ "Presenter" \in completed
    /\ argv.imperial
    /\ SentUnits(query_url) = Imperial
    /\ Text(stdout)[Len(Text(stdout)) - 2] = "F"

\* C2: when the GET is answered with an error status the process ends with
\* the message that status selects (401: access denied, 404: city not found,
\* any other: a message holding the status code), the body is never read or
\* parsed, and print_result is never called.
C2_StatusMessages ==
    reply.kind = "HTTPError" =>
        /\ pc = "exit"
        /\ fault = "none"
        /\ reply.code = 401 => stderr = <<"Access denied. Please check your API key and try again.">>
        /\ reply.code = 404 => stderr = <<"Can't find weather data for this city.">>
        /\ reply.code \notin {401, 404} =>
              /\ Contains(stderr, NatStr(reply.code))
              /\ stderr \notin {<<"Access denied. Please check your API key and try again.">>,
                                <<"Can't find weather data for this city.">>}
        /\ ~body_read
        /\ weather_data = EmptyObj
        /\ ~Ran("Presenter")
        /\ stdout = <<>>

C2_Witness ==
    /\ pc = "exit"
    /\ reply.kind = "HTTPError" /\ reply.code = 404
    /\ stderr = <<"Can't find weather data for this city.">>

\* C3: every failure of the HTTP request, a transport failure with no HTTP
\* status as well as an error status, ends the process with a user-facing
\* message and never as an unhandled fault.
C3_EveryRequestFailureHasMessage ==
    reply.kind \in {"URLError", "HTTPError"} =>
        /\ pc = "exit"
        /\ fault = "none"
        /\ stderr \in DesignedMessages

\* C4: when the request succeeds and the body is not valid JSON the process
\* ends with "Couldn't read the server response." and a non-zero exit code,
\* print_result is never called and nothing is written to standard output.
C4_InvalidJsonMessage ==
    (reply.kind = "ok" /\ reply.body.kind # "json" /\ body_read) =>
        /\ pc = "exit"
        /\ stderr = <<"Couldn't read the server response.">>
        /\ exit_code \notin {0, Running}
        /\ ~Ran("Presenter")
        /\ stdout = <<>>

\* C5 as stated: components are invoked at most once and in the listed order
\* Argument Reader, Credential Loader, Query Builder, Weather Fetcher,
\* Presenter, each only after every earlier one has completed; at most one
\* GET is issued; after a failure nothing later runs and the process is over.
C5_ListedOrder ==
    /\ NoRepeats(started)
    /\ IsPrefix(started, ListedOrder)
    /\ \A i \in DOMAIN started : \A j \in 1..(i - 1) : ListedOrder[j] \in completed
    /\ gets <= 1
    /\ failed # "none" => (pc = "exit" /\ failed = started[Len(started)] /\ failed \notin completed)

\* C5 as amended: the Query Builder is invoked right after the Argument
\* Reader and the Credential Loader is invoked from inside it, before the
\* URL is put together.  Components are invoked at most once, in the order
\* Argument Reader, Query Builder, Credential Loader, Weather Fetcher,
\* Presenter; the Credential Loader starts only once the Argument Reader has
\* completed, the Query Builder completes only after the Credential Loader
\* has, and every other component starts only after all components listed
\* before it have completed; at most one GET is issued; after a failure
\* nothing later runs and the process is over.
C5_CalledOrder ==
    /\ NoRepeats(started)
    /\ IsPrefix(started, CalledOrder)
    /\ Ran("QueryBuilder") => "ArgumentReader" \in completed
    /\ Ran("CredentialLoader") => "ArgumentReader" \in completed
    /\ "QueryBuilder" \in completed => "CredentialLoader" \in completed
    /\ Ran("WeatherFetcher") => {"ArgumentReader", "CredentialLoader", "QueryBuilder"} \subseteq completed
    /\ Ran("Presenter") =>
          {"ArgumentReader", "CredentialLoader", "QueryBuilder", "WeatherFetcher"} \subseteq completed
    /\ completed \subseteq Range(started)
    /\ gets <= 1
    /\ gets = 1 <=> Ran("WeatherFetcher")
    /\ failed # "none" => (pc = "exit" /\ failed = started[Len(started)] /\ failed \notin completed)

C5_Witness ==
    /\ pc = "exit"
    /\ started = CalledOrder
    /\ "Presenter" \in completed
    /\ gets = 1

\* C6 as stated: the exit code is 0 exactly when the run completes the
\* Presenter, and it is non-zero on every argument-parsing failure, every
\* Credential Loader failure and every fatal path of the Weather Fetcher.
C6_ZeroIffPresented ==
    pc = "exit" =>
        /\ exit_code = 0 <=> "Presenter" \in completed
        /\ argv.kind = "usage" => exit_code # 0
        /\ (Ran("CredentialLoader") /\ KeyOption(secrets) = {}) => exit_code # 0
        /\ reply.kind = "HTTPError" => exit_code # 0
        /\ (body_read /\ reply.body.kind = "malformed") => exit_code # 0

\* C6 as amended: the exit code is 0 exactly when the run completes the
\* Presenter or the command line asks for help (-h/--help, which argparse
\* answers by printing the help text and exiting with 0); it is non-zero on
\* every argument-parsing failure, every Credential Loader failure and every
\* fatal path of the Weather Fetcher.
C6_ZeroIffPresentedOrHelp ==
    pc = "exit" =>
        /\ exit_code = 0 <=> ("Presenter" \in completed \/ argv.kind = "help")
        /\ exit_code # Running
        /\ argv.kind = "usage" => exit_code # 0
        /\ (Ran("CredentialLoader") /\ KeyOption(secrets) = {}) => exit_code # 0
        /\ reply.kind = "HTTPError" => exit_code # 0
        /\ (body_read /\ reply.body.kind = "malformed") => exit_code # 0

C6_Witness ==
    /\ pc = "exit"
    /\ argv.kind = "help"
    /\ exit_code = 0
    /\ ~Ran("Presenter")

\* C7: for every non-empty list of city tokens, every flag and every API key
\* the query string of the URL has no raw space, carries the space-joined
\* city text percent-encoded, and contains exactly one of units=metric and
\* units=imperial: the one the flag selects.
C7_OneUnitsToken ==
    "QueryBuilder" \in completed =>
        LET qs == QueryString(query_url)
            hasMetric == Contains(qs, <<"u", "n", "i", "t", "s", "=">> \o Metric)
            hasImperial == Contains(qs, <<"u", "n", "i", "t", "s", "=">> \o Imperial)
        IN  /\ " " \notin Range(qs)
            /\ FormDecoded(SentCity(query_url)) = Join(<<" ">>, argv.city)
            /\ argv.imperial => (hasImperial /\ ~hasMetric)
            /\ ~argv.imperial => (hasMetric /\ ~hasImperial)

C9_OutputLine ==
    (Ran("Presenter") /\ Complete(weather_data) /\ pc = "exit") =>
        LET t == Text(stdout)
            place == weather_data["name"] \o <<",", " ">> \o weather_data["sys"]["country"]
            desc == weather_data["weather"][1]["description"]
            sky == <<Upper(desc[1])>> \o Tail(capitalize(desc))
            temp == <<"(">> \o FloatStr(weather_data["main"]["temp"]) \o <<"U+00B0">>
                        \o (IF argv.imperial THEN <<"F">> ELSE <<"C">>) \o <<")">>
        IN  /\ Count("\n", t) = 1 /\ t[Len(t)] = "\n"
            /\ Contains(t, place)
            /\ Contains(t, sky)
            /\ Contains(t, temp)
            /\ Find(t, place) < Find(t, sky) /\ Find(t, sky) < Find(t, temp)

\* C10: when the decoded payload lacks name, sys.country,
\* weather[0].description or main.temp, print_result ends in an unhandled
\* fault, not in one of the designed messages, and nothing at all has been
\* written to standard output.
C10_MissingFieldFaultsBeforeOutput ==
    (Ran("Presenter") /\ ~Complete(weather_data)) =>
        /\ pc = "exit"
        /\ fault \in {"KeyError", "IndexError"}
        /\ stderr \notin DesignedMessages
        /\ exit_code # 0
        /\ stdout = <<>>
        /\ failed = "Presenter"

C10_Witness ==
    /\ Ran("Presenter")
    /\ "weather" \in DOMAIN weather_data /\ weather_data["weather"] = <<>>
    /\ "name" \in DOMAIN weather_data
    /\ fault = "IndexError"
    /\ stdout = <<>>

====
